---------------------------- MODULE Spec2Model ----------------------------
(***************************************************************************)
(* Model of api/pr.py: the webhook endpoint `main`, the pull-request       *)
(* handler `opened_pr`, and the two classifier functions                   *)
(* `get_change_size` and `get_responsible_teams`.                          *)
(*                                                                         *)
(* Python strings on which the code performs string operations (paths,     *)
(* logins, line contents) are sequences of one-character strings, so that  *)
(* startswith, split, strip and the substring test `in` are computed.      *)
(* Team names and labels are only compared and stored; they are atoms.     *)
(***************************************************************************)
EXTENDS Integers, Sequences, FiniteSets, TLC

(***************************************************************************)
(* Bounds of the explored input space.                                     *)
(***************************************************************************)
\* Largest number of files in a diff handed to the classifier functions.
MaxFiles == 2
\* Largest number of files in the patch a dispatched request downloads.
MaxPatchFiles == 2

(***************************************************************************)
(* String literals of the source.                                          *)
(***************************************************************************)
PREFIX_src == <<"s", "r", "c", "/">>  \* 'src/'
PREFIX_requirements == <<"r", "e", "q", "u", "i", "r", "e", "m", "e", "n", "t", "s", ".", "t", "x", "t">>  \* 'requirements.txt'
PREFIX_src_ui == <<"s", "r", "c", "-", "u", "i", "/">>  \* 'src-ui/'
PREFIX_docs == <<"d", "o", "c", "s", "/">>  \* 'docs/'
PREFIX_github == <<".", "g", "i", "t", "h", "u", "b", "/">>  \* '.github/'
EXT_rst == <<"r", "s", "t">>  \* 'rst'
EXT_md == <<"m", "d">>  \* 'md'
EXT_txt == <<"t", "x", "t">>  \* 'txt'
EXT_lock == <<"l", "o", "c", "k">>  \* 'lock'
BOT_dependabot == <<"d", "e", "p", "e", "n", "d", "a", "b", "o", "t">>  \* 'dependabot'
BOT_l10n == <<"p", "a", "p", "e", "r", "l", "e", "s", "s", "-", "l", "1", "0", "n">>  \* 'paperless-l10n'
BOT_actions == <<"g", "i", "t", "h", "u", "b", "-", "a", "c", "t", "i", "o", "n", "s">>  \* 'github-actions'

(***************************************************************************)
(* Input strings: submitter logins, file paths and line contents.          *)
(***************************************************************************)
LOGIN_dependabot == <<"d", "e", "p", "e", "n", "d", "a", "b", "o", "t", "[", "b", "o", "t", "]">>  \* 'dependabot[bot]'
LOGIN_l10n == <<"p", "a", "p", "e", "r", "l", "e", "s", "s", "-", "l", "1", "0", "n">>  \* 'paperless-l10n'
LOGIN_actions == <<"g", "i", "t", "h", "u", "b", "-", "a", "c", "t", "i", "o", "n", "s", "[", "b", "o", "t", "]">>  \* 'github-actions[bot]'
LOGIN_alice == <<"a", "l", "i", "c", "e">>  \* 'alice'
LOGIN_bob == <<"b", "o", "b">>  \* 'bob'
PATH_src_app_py == <<"s", "r", "c", "/", "a", "p", "p", ".", "p", "y">>  \* 'src/app.py'
PATH_src_ui_index_ts == <<"s", "r", "c", "-", "u", "i", "/", "i", "n", "d", "e", "x", ".", "t", "s">>  \* 'src-ui/index.ts'
PATH_README_md == <<"R", "E", "A", "D", "M", "E", ".", "m", "d">>  \* 'README.md'
PATH_requirements_txt == <<"r", "e", "q", "u", "i", "r", "e", "m", "e", "n", "t", "s", ".", "t", "x", "t">>  \* 'requirements.txt'
PATH_docs_index_rst == <<"d", "o", "c", "s", "/", "i", "n", "d", "e", "x", ".", "r", "s", "t">>  \* 'docs/index.rst'
PATH_github_ci_yml == <<".", "g", "i", "t", "h", "u", "b", "/", "c", "i", ".", "y", "m", "l">>  \* '.github/ci.yml'
PATH_Dockerfile == <<"D", "o", "c", "k", "e", "r", "f", "i", "l", "e">>  \* 'Dockerfile'
PATH_lib_src_x_py == <<"l", "i", "b", "/", "s", "r", "c", "/", "x", ".", "p", "y">>  \* 'lib/src/x.py'
PATH_src_a_min_js == <<"s", "r", "c", "/", "a", ".", "m", "i", "n", ".", "j", "s">>  \* 'src/a.min.js'
PATH_src_ui_package_lock == <<"s", "r", "c", "-", "u", "i", "/", "p", "a", "c", "k", "a", "g", "e", ".", "l", "o", "c", "k">>  \* 'src-ui/package.lock'
PATH_lock == <<"l", "o", "c", "k">>  \* 'lock'
VALUE_code == <<" ", " ", "x", " ", "=", " ", "1", "\n">>  \* '  x = 1\n'
VALUE_abc == <<"a", "b", "c", "\n">>  \* 'abc\n'
VALUE_ab == <<"\t", "a", "b", " ", "\n">>  \* '\tab \n'
VALUE_brace == <<" ", " ", " ", " ", "}", "\n">>  \* '    }\n'
VALUE_blank == <<"\n">>  \* '\n'

(***************************************************************************)
(* Python string operations used by the code.                              *)
(***************************************************************************)
\* The substring test `sub in s`.
contains(sub, s) ==
    \E i \in 0..(Len(s) - Len(sub)) : SubSeq(s, i + 1, i + Len(sub)) = sub

\* Variant of startswith: the prefix is accepted anywhere in the string.
startswith_anywhere(s, prefix) == contains(prefix, s)

\* str.startswith(prefix)
startswith(s, prefix) ==
    /\ Len(prefix) <= Len(s)
    /\ SubSeq(s, 1, Len(prefix)) = prefix

\* str.split(sep) for a one-character separator: the list of the pieces
\* between separators, scanned left to right (cur is the piece being read).
RECURSIVE split_from(_, _, _, _, _)
split_from(s, sep, i, cur, out) ==
    IF i > Len(s) THEN Append(out, cur)
    ELSE IF s[i] = sep THEN split_from(s, sep, i + 1, <<>>, Append(out, cur))
    ELSE split_from(s, sep, i + 1, Append(cur, s[i]), out)

split(s, sep) == split_from(s, sep, 1, <<>>, <<>>)

\* Characters str.strip() removes at both ends.
Whitespace == {" ", "\t", "\n", "\r"}

RECURSIVE lstrip(_)
lstrip(s) ==
    IF s # <<>> /\ Head(s) \in Whitespace THEN lstrip(Tail(s)) ELSE s

RECURSIVE rstrip(_)
rstrip(s) ==
    IF s # <<>> /\ s[Len(s)] \in Whitespace
    THEN rstrip(SubSeq(s, 1, Len(s) - 1)) ELSE s

\* str.strip()
strip(s) == rstrip(lstrip(s))

(***************************************************************************)
(* The parsed diff (unidiff.PatchSet): a sequence of file changes, each    *)
(* with a path and a sequence of hunks; a hunk is a sequence of lines; a   *)
(* line has a type ("+" added, "-" removed, " " context) and a value.      *)
(***************************************************************************)
is_added(line) == line.line_type = "+"

(***************************************************************************)
(* get_responsible_teams                                                   *)
(***************************************************************************)
\* The rule table: (path prefix, team) in the order of the source.
responsible ==
    << <<PREFIX_src, "backend">>,
       <<PREFIX_requirements, "backend">>,
       <<PREFIX_src_ui, "frontend">>,
       <<PREFIX_docs, "documentation">>,
       <<PREFIX_github, "ci-cd">> >>

\* Inner loop: the rules, for one change.
RECURSIVE teams_of_change(_, _, _)
teams_of_change(change, r, teams) ==
    IF r > Len(responsible) THEN teams
    ELSE teams_of_change(change, r + 1,
            IF startswith(change.path, responsible[r][1])
            THEN teams \cup {responsible[r][2]}
            ELSE teams)

\* Outer loop: the changes of the diff.
RECURSIVE teams_of_diff(_, _, _)
teams_of_diff(diff, c, teams) ==
    IF c > Len(diff) THEN teams
    ELSE teams_of_diff(diff, c + 1, teams_of_change(diff[c], 1, teams))

get_responsible_teams(diff) == teams_of_diff(diff, 1, {})

(***************************************************************************)
(* get_change_size                                                         *)
(***************************************************************************)
ignore_types == {EXT_rst, EXT_md, EXT_txt, EXT_lock}

\* change.path.split(".")[-1]
path_type(path) == split(path, ".")[Len(split(path, "."))]

\* Variant of line_counts: lines of 2 characters count as well.
line_counts_from_two(line) == is_added(line) /\ Len(strip(line.value)) >= 2

\* The condition under which a line adds one to the size.
line_counts(line) == is_added(line) /\ Len(strip(line.value)) > 2

\* Innermost loop: the lines of one hunk.
RECURSIVE size_of_hunk(_, _, _)
size_of_hunk(hunk, l, size) ==
    IF l > Len(hunk) THEN size
    ELSE size_of_hunk(hunk, l + 1,
            IF line_counts(hunk[l]) THEN size + 1 ELSE size)

\* Middle loop: the hunks of one change.
RECURSIVE size_of_change(_, _, _)
size_of_change(change, h, size) ==
    IF h > Len(change.hunks) THEN size
    ELSE size_of_change(change, h + 1, size_of_hunk(change.hunks[h], 1, size))

\* Outer loop: the changes whose type is not ignored.
RECURSIVE size_of_diff(_, _, _)
size_of_diff(diff, c, size) ==
    IF c > Len(diff) THEN size
    ELSE size_of_diff(diff, c + 1,
            IF path_type(diff[c].path) \notin ignore_types
            THEN size_of_change(diff[c], 1, size)
            ELSE size)

get_change_size(diff) == size_of_diff(diff, 1, 0)

(***************************************************************************)
(* Inputs explored by the model.                                           *)
(***************************************************************************)
Line(type, value) == [line_type |-> type, value |-> value]

\* n added lines of code between a context line and a removed line.
HunkAdded(n) ==
    <<Line(" ", VALUE_code)>>
        \o [i \in 1..n |-> Line("+", VALUE_code)]
        \o <<Line("-", VALUE_code)>>

\* Added lines that strip to 0, 1 and 2 characters, and lines that are not
\* added.
HunkNoise ==
    <<Line("+", VALUE_blank), Line("+", VALUE_brace), Line("+", VALUE_ab),
      Line("-", VALUE_code), Line(" ", VALUE_abc)>>

\* One added line that strips to exactly 3 characters.
HunkAbc == <<Line("+", VALUE_abc)>>

FileChange(path, hunks) == [path |-> path, hunks |-> hunks]

\* All sequences of at most n elements of S.
SeqsUpTo(S, n) == UNION {[1..k -> S] : k \in 0..n}

\* Diffs handed to the classifier functions: every path with every hunk list.
ClassifierPaths ==
    {PATH_src_app_py, PATH_src_ui_index_ts, PATH_README_md,
     PATH_requirements_txt, PATH_docs_index_rst, PATH_github_ci_yml,
     PATH_Dockerfile, PATH_lib_src_x_py, PATH_src_ui_package_lock, PATH_lock,
     PATH_src_a_min_js}

ClassifierHunkLists ==
    {<<>>, <<HunkNoise>>, <<HunkAbc, HunkNoise>>, <<HunkAdded(3), HunkAdded(2)>>}

ClassifierFiles ==
    {FileChange(p, hs) : p \in ClassifierPaths, hs \in ClassifierHunkLists}

ClassifierDiffs == SeqsUpTo(ClassifierFiles, MaxFiles)

\* Patches a dispatched request may download.
PatchFiles ==
    {FileChange(PATH_src_app_py, <<HunkAdded(15)>>),
     FileChange(PATH_src_ui_index_ts, <<HunkAdded(3), HunkNoise>>),
     FileChange(PATH_README_md, <<HunkAdded(20)>>),
     FileChange(PATH_github_ci_yml, <<HunkAdded(9)>>),
     FileChange(PATH_requirements_txt, <<HunkAdded(9)>>),
     FileChange(PATH_docs_index_rst, <<HunkAdded(3)>>),
     FileChange(PATH_Dockerfile, <<HunkAbc>>)}

Patches == SeqsUpTo(PatchFiles, MaxPatchFiles)

Logins == {LOGIN_dependabot, LOGIN_l10n, LOGIN_actions, LOGIN_alice, LOGIN_bob}

\* Answers of the organization's member listing.
MemberLists == {<<>>, <<LOGIN_alice>>, <<LOGIN_bob, LOGIN_alice>>}

\* Webhook deliveries: the event header, the payload's action and submitter,
\* and whether the signature header matches the shared secret.
Requests ==
    [event : {"ping", "pull_request", "issues"},
     action : {"opened", "closed"},
     user : Logins,
     signature_ok : BOOLEAN]

NoRequest == [event |-> "", action |-> "", user |-> <<>>, signature_ok |-> FALSE]

(***************************************************************************)
(* State.                                                                  *)
(***************************************************************************)
VARIABLES
    pc,                 \* position of the request in main / opened_pr
    request,            \* the delivery being handled
    status,             \* status of the Response (0: none yet)
    calls,              \* awaited steps of the request, in order
    patch,              \* opened_pr: the parsed patch
    members,            \* opened_pr: logins of the organization members
    change_size,        \* value of get_change_size(patch) (-1: not computed)
    small_change,       \* opened_pr: small_change
    responsible_teams,  \* opened_pr: responsible
    labels,             \* opened_pr: labels
    team_reviewers,     \* opened_pr: team_reviewers
    pr_labels,          \* GitHub: labels on the pull request
    pr_reviewers,       \* GitHub: teams requested for review
    pr_comments         \* GitHub: comments on the pull request

vars == <<pc, request, status, calls, patch, members, change_size,
          small_change, responsible_teams, labels, team_reviewers,
          pr_labels, pr_reviewers, pr_comments>>

locals == <<patch, members, change_size, small_change, responsible_teams,
            labels, team_reviewers>>

github == <<pr_labels, pr_reviewers, pr_comments>>

Call(op, data, raised) == [op |-> op, data |-> data, raised |-> raised]

\* All orders in which iterating a set can yield its elements.
Orders(S) ==
    {f \in [1..Cardinality(S) -> S] : \A i, j \in DOMAIN f : i # j => f[i] # f[j]}

Range(f) == {f[i] : i \in DOMAIN f}

Init ==
    /\ pc = "idle"
    /\ request = NoRequest
    /\ status = 0
    /\ calls = <<>>
    /\ patch = <<>>
    /\ members = <<>>
    /\ change_size = -1
    /\ small_change = FALSE
    /\ responsible_teams = {}
    /\ labels = <<>>
    /\ team_reviewers = <<>>
    /\ pr_labels = {}
    /\ pr_reviewers = {}
    /\ pr_comments = <<>>

(***************************************************************************)
(* main                                                                    *)
(***************************************************************************)
\* return Response(200)
main_return ==
    /\ pc' = "done"
    /\ status' = 200

\* Variant of main_except: the exception is logged and 200 is returned.
main_except_success ==
    /\ pc' = "done"
    /\ status' = 200

\* except Exception: ... return Response(500)
main_except ==
    /\ pc' = "done"
    /\ status' = 500

\* A delivery arrives at POST /api/pr; each delivery announces a newly
\* opened pull request.
main_request(req) ==
    /\ pc \in {"idle", "done"}
    /\ request' = req
    /\ pc' = "token"
    /\ status' = 0
    /\ calls' = <<>>
    /\ patch' = <<>>
    /\ members' = <<>>
    /\ change_size' = -1
    /\ small_change' = FALSE
    /\ responsible_teams' = {}
    /\ labels' = <<>>
    /\ team_reviewers' = <<>>
    /\ pr_labels' = {}
    /\ pr_reviewers' = {}
    /\ pr_comments' = <<>>

\* await get_installation_access_token(...)
main_token(ok) ==
    /\ pc = "token"
    /\ calls' = Append(calls, Call("token", <<>>, ~ok))
    /\ IF ok THEN pc' = "from_http" /\ status' = status
             ELSE main_except
    /\ UNCHANGED <<request, locals, github>>

\* sansio.Event.from_http(headers, body, secret=secret), which raises when
\* the signature does not match, then the ping test.
main_from_http ==
    /\ pc = "from_http"
    /\ IF ~request.signature_ok THEN main_except
       ELSE IF request.event = "ping" THEN main_return
       ELSE pc' = "sleep" /\ status' = status
    /\ UNCHANGED <<request, calls, locals, github>>

\* Variant of main_sleep: the dispatch starts without the pause.
main_sleep_skipped ==
    /\ pc = "sleep"
    /\ pc' = "dispatch"
    /\ UNCHANGED <<request, status, calls, locals, github>>

\* await asyncio.sleep(1)
main_sleep ==
    /\ pc = "sleep"
    /\ calls' = Append(calls, Call("sleep", <<>>, FALSE))
    /\ pc' = "dispatch"
    /\ UNCHANGED <<request, status, locals, github>>

\* await router.dispatch(event, gh): opened_pr is the only registered
\* callback; without a callback main returns 200.
main_dispatch ==
    /\ pc = "dispatch"
    /\ IF request.event = "pull_request" /\ request.action = "opened"
       THEN pc' = "get_patch" /\ status' = status
       ELSE main_return
    /\ UNCHANGED <<request, calls, locals, github>>

(***************************************************************************)
(* opened_pr                                                               *)
(***************************************************************************)
\* async with session.get(pull_request["patch_url"]): PatchSet(text)
opened_pr_get_patch(p, ok) ==
    /\ pc = "get_patch"
    /\ calls' = Append(calls, Call("patch", <<>>, ~ok))
    /\ IF ok THEN pc' = "get_members" /\ status' = status /\ patch' = p
             ELSE main_except /\ patch' = patch
    /\ UNCHANGED <<request, members, change_size, small_change,
                   responsible_teams, labels, team_reviewers, github>>

\* members = await gh.getitem("/orgs/paperless-ngx/members")
opened_pr_get_members(m, ok) ==
    /\ pc = "get_members"
    /\ calls' = Append(calls, Call("members", <<>>, ~ok))
    /\ IF ok THEN pc' = "classify" /\ status' = status /\ members' = m
             ELSE main_except /\ members' = members
    /\ UNCHANGED <<request, patch, change_size, small_change,
                   responsible_teams, labels, team_reviewers, github>>

\* Variant of ignored_user: the dependabot test is missing.
ignored_user_without_dependabot(user) ==
    \/ contains(BOT_l10n, user)
    \/ contains(BOT_actions, user)

\* The test on the submitter's login that makes opened_pr return at once.
ignored_user(user) ==
    \/ contains(BOT_dependabot, user)
    \/ contains(BOT_l10n, user)
    \/ contains(BOT_actions, user)

\* Variant of is_small_change: the threshold itself is still small.
is_small_change_inclusive(size) == size <= 10

\* The threshold test on the change size.
is_small_change(size) == size < 10

\* From the bot test to the label list: the size label, then the
\* responsible teams in the order the set yields them.
opened_pr_classify ==
    /\ pc = "classify"
    /\ IF ignored_user(request.user)
       THEN /\ main_return
            /\ UNCHANGED <<change_size, small_change, responsible_teams, labels>>
       ELSE /\ change_size' = get_change_size(patch)
            /\ small_change' = is_small_change(change_size')
            /\ responsible_teams' = get_responsible_teams(patch)
            /\ \E order \in Orders(responsible_teams') :
                  labels' = <<IF small_change' THEN "small-change"
                                               ELSE "non-trivial">> \o order
            /\ pc' = "post_labels"
            /\ status' = status
    /\ UNCHANGED <<request, calls, patch, members, team_reviewers, github>>

\* f"paperless-ngx/{x}"
team_handle(x) == <<"paperless-ngx", x>>

\* await gh.post(issue_url + "/labels", data=labels), then the list of the
\* team handles.
opened_pr_post_labels(ok) ==
    /\ pc = "post_labels"
    /\ calls' = Append(calls, Call("labels", labels, ~ok))
    /\ IF ok
       THEN /\ pr_labels' = pr_labels \cup Range(labels)
            /\ \E order \in Orders(responsible_teams) :
                  team_reviewers' = [i \in DOMAIN order |-> team_handle(order[i])]
            /\ pc' = "post_reviewers"
            /\ status' = status
       ELSE /\ main_except
            /\ UNCHANGED <<pr_labels, team_reviewers>>
    /\ UNCHANGED <<request, patch, members, change_size, small_change,
                   responsible_teams, labels, pr_reviewers, pr_comments>>

\* Variant of opened_pr_post_reviewers: the membership test is missing.
opened_pr_post_reviewers_no_member_test(ok) ==
    /\ pc = "post_reviewers"
    /\ calls' = Append(calls, Call("reviewers", team_reviewers, ~ok))
    /\ IF ok
       THEN /\ pr_reviewers' = pr_reviewers \cup Range(team_reviewers)
            /\ pc' = "post_comment"
            /\ status' = status
       ELSE /\ pc' = "done"
            /\ status' = 500
            /\ UNCHANGED pr_reviewers
    /\ UNCHANGED <<request, locals, pr_labels, pr_comments>>

\* await gh.post(url + "/requested_reviewers", ...), then the membership
\* test that returns without a comment.
opened_pr_post_reviewers(ok) ==
    /\ pc = "post_reviewers"
    /\ calls' = Append(calls, Call("reviewers", team_reviewers, ~ok))
    /\ IF ok
       THEN /\ pr_reviewers' = pr_reviewers \cup Range(team_reviewers)
            /\ IF request.user \in Range(members)
               THEN main_return
               ELSE pc' = "post_comment" /\ status' = status
       ELSE /\ main_except
            /\ UNCHANGED pr_reviewers
    /\ UNCHANGED <<request, locals, pr_labels, pr_comments>>

\* The sentence of the comment that depends on the size.
review_conditions(small) == IF small THEN "single contributor" ELSE "two contributors"

\* new_pr_template.format(user=user, review_conditions=review_conditions)
comment(user, small) == <<user, review_conditions(small)>>

\* await gh.post(comments_url, data={"body": comment})
opened_pr_post_comment(ok) ==
    /\ pc = "post_comment"
    /\ calls' = Append(calls,
                  Call("comment", comment(request.user, small_change), ~ok))
    /\ IF ok
       THEN /\ pr_comments' = Append(pr_comments,
                                     comment(request.user, small_change))
            /\ main_return
       ELSE /\ main_except
            /\ UNCHANGED pr_comments
    /\ UNCHANGED <<request, locals, pr_labels, pr_reviewers>>

Next ==
    \/ \E req \in Requests : main_request(req)
    \/ \E ok \in BOOLEAN : main_token(ok)
    \/ main_from_http
    \/ main_sleep
    \/ main_dispatch
    \/ \E p \in Patches, ok \in BOOLEAN : opened_pr_get_patch(p, ok)
    \/ \E m \in MemberLists, ok \in BOOLEAN : opened_pr_get_members(m, ok)
    \/ opened_pr_classify
    \/ \E ok \in BOOLEAN : opened_pr_post_labels(ok)
    \/ \E ok \in BOOLEAN : opened_pr_post_reviewers(ok)
    \/ \E ok \in BOOLEAN : opened_pr_post_comment(ok)

Spec == Init /\ [][Next]_vars

(***************************************************************************)
(* The classifier functions on their own: a diff is drawn, then each       *)
(* function is applied to it.                                              *)
(***************************************************************************)
ClassifierInit ==
    /\ pc = "diff"
    /\ patch \in ClassifierDiffs
    /\ request = NoRequest
    /\ status = 0
    /\ calls = <<>>
    /\ members = <<>>
    /\ change_size = -1
    /\ small_change = FALSE
    /\ responsible_teams = {}
    /\ labels = <<>>
    /\ team_reviewers = <<>>
    /\ pr_labels = {}
    /\ pr_reviewers = {}
    /\ pr_comments = <<>>

call_get_change_size ==
    /\ pc = "diff"
    /\ change_size' = get_change_size(patch)
    /\ pc' = "sized"
    /\ UNCHANGED <<request, status, calls, patch, members, small_change,
                   responsible_teams, labels, team_reviewers, github>>

call_get_responsible_teams ==
    /\ pc = "sized"
    /\ responsible_teams' = get_responsible_teams(patch)
    /\ pc' = "classified"
    /\ UNCHANGED <<request, status, calls, patch, members, change_size,
                   small_change, labels, team_reviewers, github>>

ClassifierNext ==
    \/ call_get_change_size
    \/ call_get_responsible_teams

SpecClassifier == ClassifierInit /\ [][ClassifierNext]_vars

(***************************************************************************)
(* Vocabulary of the properties.                                           *)
(***************************************************************************)
HasCall(op) == \E i \in DOMAIN calls : calls[i].op = op

Succeeded(op) == \E i \in DOMAIN calls : calls[i].op = op /\ ~calls[i].raised

IsOpenedPR == request.event = "pull_request" /\ request.action = "opened"

BotLogins == {LOGIN_dependabot, LOGIN_l10n, LOGIN_actions}

Max(S) == CHOOSE x \in S : \A y \in S : y <= x

\* The substring after the final "." of a path (the whole path when it has
\* no ".").
Extension(path) ==
    LET last == Max({0} \cup {i \in DOMAIN path : path[i] = "."})
    IN  SubSeq(path, last + 1, Len(path))

\* Number of characters between the first and the last character that is
\* not whitespace, both included.
StrippedLen(value) ==
    LET inked == {i \in DOMAIN value : value[i] \notin {" ", "\t", "\n", "\r"}}
    IN  IF inked = {} THEN 0
        ELSE Max(inked) - (CHOOSE i \in inked : \A j \in inked : i <= j) + 1

IgnoredExtensions == {EXT_rst, EXT_md, EXT_txt, EXT_lock}

\* Positions (file, hunk, line) of the significant added lines of the files
\* whose extension is not ignored.
SignificantAdded(diff) ==
    UNION {UNION {{<<c, h, l>> : l \in
                     {k \in DOMAIN diff[c].hunks[h] :
                         /\ diff[c].hunks[h][k].line_type = "+"
                         /\ StrippedLen(diff[c].hunks[h][k].value) > 2}} :
                  h \in DOMAIN diff[c].hunks} :
           c \in {f \in DOMAIN diff : Extension(diff[f].path) \notin IgnoredExtensions}}

AddedLines(diff) ==
    UNION {UNION {{diff[c].hunks[h][l] : l \in
                     {k \in DOMAIN diff[c].hunks[h] :
                         diff[c].hunks[h][k].line_type = "+"}} :
                  h \in DOMAIN diff[c].hunks} :
           c \in DOMAIN diff}

\* The rule table as a relation between path prefixes and teams.
RuleTable ==
    {<<PREFIX_src, "backend">>, <<PREFIX_requirements, "backend">>,
     <<PREFIX_src_ui, "frontend">>, <<PREFIX_docs, "documentation">>,
     <<PREFIX_github, "ci-cd">>}

TeamNames == {"backend", "frontend", "documentation", "ci-cd"}

\* path = prefix followed by some rest
HasPrefix(path, prefix) ==
    \E n \in 0..Len(path) : path = prefix \o SubSeq(path, n + 1, Len(path))

Matches(diff, rule) == \E c \in DOMAIN diff : HasPrefix(diff[c].path, rule[1])

MatchedTeams(diff) ==
    {t \in TeamNames : \E rule \in RuleTable : rule[2] = t /\ Matches(diff, rule)}

Reordered(diff, perm) == [i \in DOMAIN diff |-> diff[perm[i]]]

C7_ResponsibleTeams ==
    pc = "classified" =>
        /\ \A t \in TeamNames \cup responsible_teams :
              t \in responsible_teams <=>
                 \E rule \in RuleTable : rule[2] = t /\ Matches(patch, rule)
        /\ responsible_teams \subseteq TeamNames
        /\ responsible_teams = {} <=> ~\E rule \in RuleTable : Matches(patch, rule)
        /\ \A perm \in Permutations(DOMAIN patch) :
              get_responsible_teams(Reordered(patch, perm)) = responsible_teams

\* Two rules matched by two files have accumulated two teams.
C7_Witness ==
    /\ pc = "classified"
    /\ Len(patch) = 2
    /\ patch[1].path = PATH_requirements_txt
    /\ patch[2].path = PATH_github_ci_yml
    /\ responsible_teams = {"backend", "ci-cd"}

(***************************************************************************)
(* Properties of main and opened_pr (specification Spec).                  *)
(***************************************************************************)
\* C1, as stated: an opened pull request of dependabot ends with exactly
\* the label "dependencies" applied, without comment and without reviewer
\* request.
C1_Original ==
    (IsOpenedPR /\ request.user = LOGIN_dependabot /\ pc = "done" /\ status = 200)
        => /\ \E i \in DOMAIN calls :
                 calls[i].op = "labels" /\ calls[i].data = <<"dependencies">>
           /\ pr_labels = {"dependencies"}
           /\ ~HasCall("comment")
           /\ ~HasCall("reviewers")

\* C1, amended: for an opened pull request of dependabot, whatever the
\* diff, no label call is made and no label is applied, no comment is
\* posted and no reviewer request is issued.
C1_Amended ==
    (IsOpenedPR /\ request.user = LOGIN_dependabot)
        => /\ ~HasCall("labels")
           /\ ~HasCall("reviewers")
           /\ ~HasCall("comment")
           /\ pr_labels = {}
           /\ pr_reviewers = {}
           /\ pr_comments = <<>>

\* The request of dependabot has been answered after a non-trivial patch
\* with responsible teams was downloaded.
C1_Witness ==
    /\ IsOpenedPR
    /\ request.user = LOGIN_dependabot
    /\ pc = "done"
    /\ status = 200
    /\ Succeeded("members")
    /\ Cardinality(SignificantAdded(patch)) >= 10
    /\ MatchedTeams(patch) # {}

\* C2: a ping delivery makes no outbound call and is answered with 200.
C2_Ping ==
    request.event = "ping"
        => /\ calls = <<>>
           /\ pc = "done" => status = 200

\* C3, as stated: for an organization member who is not a bot, neither a
\* comment nor a reviewer request is made.
C3_Original ==
    (IsOpenedPR /\ request.user \notin BotLogins /\ request.user \in Range(members))
        => /\ ~HasCall("comment")
           /\ ~HasCall("reviewers")

\* C3, amended: for an organization member who is not a bot, no comment is
\* posted; the write calls made are the label call and the reviewer
\* request, and a request answered with 200 has made both.
C3_Amended ==
    (IsOpenedPR /\ request.user \notin BotLogins /\ request.user \in Range(members))
        => /\ ~HasCall("comment")
           /\ pr_comments = <<>>
           /\ (pc = "done" /\ status = 200)
                 => Succeeded("labels") /\ Succeeded("reviewers")

\* The request of a member has been answered after the reviewer request.
C3_Witness ==
    /\ IsOpenedPR
    /\ request.user = LOGIN_alice
    /\ LOGIN_alice \in Range(members)
    /\ pc = "done"
    /\ status = 200
    /\ Succeeded("reviewers")
    /\ pr_reviewers # {}

\* C4: a reviewer request is made only for a non-empty set of responsible
\* teams, and asks for exactly these teams as paperless-ngx/<team>.
C4_ReviewerRequest ==
    \A i \in DOMAIN calls :
        calls[i].op = "reviewers"
            => /\ MatchedTeams(patch) # {}
               /\ Range(calls[i].data) =
                     {<<"paperless-ngx", t>> : t \in MatchedTeams(patch)}
               /\ Len(calls[i].data) = Cardinality(MatchedTeams(patch))

\* The patch of the scenario: src/app.py with 15 significant added lines and
\* src-ui/index.ts with 3.
ScenarioPatch ==
    <<FileChange(PATH_src_app_py, <<HunkAdded(15)>>),
      FileChange(PATH_src_ui_index_ts, <<HunkAdded(3), HunkNoise>>)>>

\* C5: for a submitter who is not a bot the label call carries one size
\* label, "small-change" below 10 and "non-trivial" from 10 on, followed by
\* the responsible teams, and it is made whether or not there is a team.
C5_Labels ==
    /\ \A i \in DOMAIN calls :
          calls[i].op = "labels" =>
             LET data == calls[i].data
                 size == Cardinality(SignificantAdded(patch))
             IN  /\ request.user \notin BotLogins
                 /\ Len(data) = 1 + Cardinality(MatchedTeams(patch))
                 /\ data[1] = IF size < 10 THEN "small-change" ELSE "non-trivial"
                 /\ size = 9 => data[1] = "small-change"
                 /\ size = 10 => data[1] = "non-trivial"
                 /\ {data[j] : j \in 2..Len(data)} = MatchedTeams(patch)
                 /\ patch = ScenarioPatch =>
                       Range(data) = {"non-trivial", "backend", "frontend"}
    /\ (IsOpenedPR /\ request.user \notin BotLogins /\ Succeeded("members")
           /\ pc \notin {"classify", "post_labels"})
          => HasCall("labels")

\* The labels of the scenario have been applied.
C5_Witness ==
    /\ patch = ScenarioPatch
    /\ request.user = LOGIN_bob
    /\ Succeeded("labels")
    /\ pr_labels = {"non-trivial", "backend", "frontend"}

\* C8: a step that raises is the last step of its request and the request
\* is answered with 500; no step is made twice; what the successful writes
\* applied stays applied; a request without a raising step is answered
\* with 200.
C8_Failure ==
    /\ \A i \in DOMAIN calls : calls[i].raised => i = Len(calls)
    /\ \A i, j \in DOMAIN calls : calls[i].op = calls[j].op => i = j
    /\ (\E i \in DOMAIN calls : calls[i].raised) => pc = "done" /\ status = 500
    /\ (Succeeded("token") /\ ~request.signature_ok /\ pc # "from_http")
          => pc = "done" /\ status = 500 /\ Len(calls) = 1
    /\ pc = "done" =>
          /\ status \in {200, 500}
          /\ status = 200 <=>
                /\ \A i \in DOMAIN calls : ~calls[i].raised
                /\ request.signature_ok
    /\ \A i \in DOMAIN calls :
          ~calls[i].raised =>
             /\ calls[i].op = "labels" => Range(calls[i].data) \subseteq pr_labels
             /\ calls[i].op = "reviewers" => Range(calls[i].data) \subseteq pr_reviewers
             /\ calls[i].op = "comment" => calls[i].data \in Range(pr_comments)

\* The reviewer request raised after the labels were applied.
C8_Witness ==
    /\ pc = "done"
    /\ status = 500
    /\ Succeeded("labels")
    /\ HasCall("reviewers")
    /\ ~Succeeded("reviewers")
    /\ pr_labels # {}

\* C9: a delivery whose signature does not verify causes no outbound call.
C9_SignatureFirst ==
    (request # NoRequest /\ ~request.signature_ok) => calls = <<>>

\* The order of the awaited steps of a dispatched request.
StepOrder ==
    <<"token", "sleep", "patch", "members", "labels", "reviewers", "comment">>

\* C10: the awaited steps of a request are made one after the other in the
\* order token, pause, patch, members, labels, reviewers, comment, each
\* having completed before the next; so the reviewer request follows the
\* completed label call, the comment follows both, and no write is made
\* twice.
C10_Order ==
    /\ Len(calls) <= Len(StepOrder)
    /\ \A i \in DOMAIN calls : calls[i].op = StepOrder[i]
    /\ \A i \in DOMAIN calls : i < Len(calls) => ~calls[i].raised
    /\ HasCall("reviewers") => Succeeded("labels")
    /\ HasCall("comment") => Succeeded("labels") /\ Succeeded("reviewers")
    /\ \A op \in {"labels", "reviewers", "comment"} :
          Cardinality({i \in DOMAIN calls : calls[i].op = op}) <= 1

\* All seven steps were made and the request was answered with 200.
C10_Witness ==
    /\ pc = "done"
    /\ status = 200
    /\ Len(calls) = 7
    /\ Succeeded("comment")

=============================================================================
